---- MODULE Spec2Model ----
(***************************************************************************)
(* State-machine model of the object browser window of                     *)
(* spyder/plugins/variableexplorer/widgets/objecteditor2/objecteditor.py   *)
(* (class ObjectBrowser): the process-wide registry of windows, the        *)
(* construction and closing of a window, its signal connections, its       *)
(* refresh timer, the rendering of the details pane, the view settings and *)
(* the name of the settings group.                                         *)
(*                                                                         *)
(* A window (a session) is a small integer; Python indices are 0-based     *)
(* and are kept 0-based here, so slot i of the list is browsers[i + 1].    *)
(***************************************************************************)
EXTENDS Integers, Sequences, FiniteSets, TLC

\* ------------------------------------------------------------------ bounds

\* Windows that may be constructed in one run of Spec.
MaxSessions == 4
\* Windows that may be constructed in one run of SpecSession.
MaxWindows == 1
\* Tree items that can be current in the tree view.
NumNodes == 2

\* ----------------------------------------------------------- Python values

\* Python's None as an entry of the _browsers list (the windows are 1, 2, ...).
None == 0

\* Every window object a run may construct.
Sessions == 1..(IF MaxSessions > MaxWindows THEN MaxSessions ELSE MaxWindows)

\* An optional keyword argument is {} for None and {v} for the value v;
\* this is `d if o is None else o`.
OrDefault(o, d) == IF o = {} THEN d ELSE CHOOSE v \in o : TRUE

Nodes == 1..NumNodes

\* ------------------------------------------------------------------- state

VARIABLES
    browsers,        \* ObjectBrowser._browsers: the list of windows and Nones
    state,           \* per window: "Unborn", "Created", "Ready" or "Closed"
    instance_nr,     \* per window: self._instance_nr (-1 before it is set)
    refresh_rate,    \* per window: self._refresh_rate
    auto_refresh,    \* per window: self._auto_refresh
    timer_active,    \* per window: self._refresh_timer.isActive()
    connected,       \* per window: the signals that have a slot connected
    show_callables,  \* per window: the proxy model's show-callables flag
    show_specials,   \* per window: the proxy model's show-specials flag
    action_checked,  \* per window: checked state of the three toggle actions
    checked_id,      \* per window: self.button_group.checkedId()
    current,         \* per window: the tree view's current item
    editor,          \* per window: text, wrap mode and colour of self.editor
    geometry,        \* per window: position and size of the window
    remaining,       \* per window: seconds until the refresh timer fires
    header,          \* per window: section sizes and hidden flags of the
                     \* tree view's header
    expanded,        \* per window: the expanded items of the tree view
    attr_details,    \* the attribute_details the windows are built with
    attr_cols,       \* the attribute_columns the windows are built with
    inspectedNodeIsVisible,  \* whether the tree models show the root item
    call,            \* a method applied on its own: arguments and result
    live_peak,       \* history: the most windows that were open at one time
    last             \* the last operation: what it was, what it raised or gave

vars == <<browsers, state, instance_nr, refresh_rate, auto_refresh,
          timer_active, connected, show_callables, show_specials,
          action_checked, checked_id, current, editor, geometry, remaining,
          header, expanded, attr_details, attr_cols, inspectedNodeIsVisible,
          call, live_peak, last>>

\* What the windows are built with, and the method applied on its own: no
\* operation of a window changes them.
config == <<attr_details, attr_cols, inspectedNodeIsVisible, call>>

\* ------------------------------------------------------- signal connections

\* The signals a window connects a slot to while it is constructed.
SIG_TIMEOUT == "refresh_timer.timeout"
SIG_CALLABLE == "toggle_callable_action.toggled"
SIG_SPECIAL == "toggle_special_attribute_action.toggled"
SIG_AUTO == "toggle_auto_refresh_action.toggled"
SIG_F5 == "refresh_action_f5.triggered"
SIG_MENU_REFRESH == "view_menu.Refresh.triggered"
SIG_ABOUT == "help_menu.About.triggered"
SIG_BUTTON == "button_group.buttonClicked"
SIG_CURRENT == "selection_model.currentChanged"

\* Connected by _setup_actions, in the order of the code.
setup_actions_signals == {SIG_CALLABLE, SIG_SPECIAL, SIG_AUTO, SIG_F5}

\* Connected by _setup_menu: the View menu's Refresh entry and the Help
\* menu's About entry.
setup_menu_signals == {SIG_MENU_REFRESH, SIG_ABOUT}

\* Connected by _setup_views.
setup_views_signals == {SIG_BUTTON, SIG_CURRENT}

Signals ==
    {SIG_TIMEOUT} \cup setup_actions_signals \cup setup_menu_signals
        \cup setup_views_signals

\* The two filter actions connected to each other's slot.
SlotOf_swapped(sig) ==
    CASE sig = SIG_TIMEOUT -> "refresh"
      [] sig = SIG_F5 -> "refresh"
      [] sig = SIG_MENU_REFRESH -> "refresh"
      [] sig = SIG_ABOUT -> "about"
      [] sig = SIG_CALLABLE -> "setShowSpecialAttributes"
      [] sig = SIG_SPECIAL -> "setShowCallables"
      [] sig = SIG_AUTO -> "toggle_auto_refresh"
      [] sig = SIG_BUTTON -> "_change_details_field"
      [] sig = SIG_CURRENT -> "_update_details"

\* The slot each signal is connected to.
SlotOf(sig) ==
    CASE sig = SIG_TIMEOUT -> "refresh"
      [] sig = SIG_F5 -> "refresh"
      [] sig = SIG_MENU_REFRESH -> "refresh"
      [] sig = SIG_ABOUT -> "about"
      [] sig = SIG_CALLABLE -> "setShowCallables"
      [] sig = SIG_SPECIAL -> "setShowSpecialAttributes"
      [] sig = SIG_AUTO -> "toggle_auto_refresh"
      [] sig = SIG_BUTTON -> "_change_details_field"
      [] sig = SIG_CURRENT -> "_update_details"

Range(f) == {f[i] : i \in DOMAIN f}

\* The signals _finalize disconnects, in the order it disconnects them.
finalize_order ==
    <<SIG_TIMEOUT, SIG_CALLABLE, SIG_SPECIAL, SIG_AUTO, SIG_F5, SIG_BUTTON,
      SIG_CURRENT>>

\* --------------------------------------------------------------- registry

\* list.index(x) from position i on (0-based); -1 stands for ValueError.
RECURSIVE index_from(_, _, _)
index_from(bs, x, i) ==
    IF i >= Len(bs) THEN -1
    ELSE IF bs[i + 1] = x THEN i
    ELSE index_from(bs, x, i + 1)

index(bs, x) == index_from(bs, x, 0)

\* _add_instance without the search for a None: it always appends.
_add_instance_append(bs, self) ==
    [browsers |-> Append(bs, self), idx |-> Len(Append(bs, self)) - 1]

\* _add_instance returning len(self._browsers) after an append, one too many.
_add_instance_off_by_one(bs, self) ==
    LET idx == index(bs, None)
    IN  IF idx = -1
        THEN [browsers |-> Append(bs, self), idx |-> Len(Append(bs, self))]
        ELSE [browsers |-> [bs EXCEPT ![idx + 1] = self], idx |-> idx]

\* _add_instance: the list afterwards and the index returned.
_add_instance(bs, self) ==
    LET idx == index(bs, None)
    IN  IF idx = -1
        THEN [browsers |-> Append(bs, self), idx |-> Len(Append(bs, self)) - 1]
        ELSE [browsers |-> [bs EXCEPT ![idx + 1] = self], idx |-> idx]

\* _remove_instance deleting the entry (del self._browsers[idx]) instead of
\* setting it to None.
_remove_instance_compact(bs, self) ==
    LET idx == index(bs, self)
    IN  IF idx = -1
        THEN [browsers |-> bs, exc |-> "ValueError"]
        ELSE [browsers |-> SubSeq(bs, 1, idx) \o SubSeq(bs, idx + 2, Len(bs)),
              exc |-> "none"]

\* _remove_instance: the list afterwards and what it raises.
_remove_instance(bs, self) ==
    LET idx == index(bs, self)
    IN  IF idx = -1
        THEN [browsers |-> bs, exc |-> "ValueError"]
        ELSE [browsers |-> [bs EXCEPT ![idx + 1] = None], exc |-> "none"]

\* about_to_quit looking at the first entry of the list only.
about_to_quit_first(bs) ==
    IF Len(bs) > 0 /\ bs[1] # None THEN "AssertionError" ELSE "none"

\* about_to_quit: what it raises.
about_to_quit(bs) ==
    IF \E i \in 1..Len(bs) : bs[i] # None THEN "AssertionError" ELSE "none"

\* ------------------------------------------------------------ details pane

\* Attribute details the windows can be given (bound on their number).
NumDetails == 2

\* What a data_fn does with a tree item: returns a text or raises an Exception.
Outcomes ==
    {[raises |-> FALSE, value |-> "repr of the item"],
     [raises |-> TRUE, value |-> "cannot stringify"]}

\* The line_wrap an AttributeDetail may ask for.
LineWraps == {"NoWrap", "WordWrap"}

\* Every attribute_details sequence of NumDetails entries.
AllDetails ==
    [1..NumDetails ->
        [name : {"detail"}, line_wrap : LineWraps,
         data_fn : [Nodes -> Outcomes]]]

\* One attribute_details sequence: detail k wraps words when k is even and
\* its data_fn raises on tree item k + 1 alone.
SessionDetails ==
    [k \in 1..NumDetails |->
        [name |-> "detail",
         line_wrap |-> IF k % 2 = 0 THEN "WordWrap" ELSE "NoWrap",
         data_fn |-> [n \in Nodes |->
                        IF n = k + 1 THEN [raises |-> TRUE,
                                       value |-> "cannot stringify"]
                        ELSE [raises |-> FALSE,
                              value |-> "repr of the item"]]]]

\* A QPlainTextEdit as constructed: empty, default wrap mode, default colour.
NewEditor ==
    [text |-> <<>>, wrap |-> "WrapAtWordBoundaryOrAnywhere",
     color |-> "default"]

\* traceback.format_exc(): its last line names the exception and its message.
format_exc(exc, msg) == <<"Traceback (most recent call last):", exc, msg>>

\* The try block of _update_details_for_item: what it raises (with the
\* message), or the text and wrap mode it sets.
details_try(details, button_id, tree_item) ==
    IF ~(button_id >= 0)
    THEN [exc |-> "AssertionError",
          msg |-> "No radio button selected. Please report this bug.",
          text |-> "", wrap |-> ""]
    ELSE IF button_id >= Len(details)
    THEN [exc |-> "IndexError", msg |-> "list index out of range",
          text |-> "", wrap |-> ""]
    ELSE LET attr_detail == details[button_id + 1]
             data == attr_detail.data_fn[tree_item]
         IN  IF data.raises
             THEN [exc |-> "Exception", msg |-> data.value,
                   text |-> "", wrap |-> ""]
             ELSE [exc |-> "none", msg |-> "",
                   text |-> data.value, wrap |-> attr_detail.line_wrap]

\* _update_details_for_item with `except AssertionError` for its handler: any
\* other exception leaves the try block with the editor black and unchanged.
_update_details_narrow_except(ed, details, button_id, tree_item) ==
    LET body == details_try(details, button_id, tree_item)
    IN  IF body.exc = "none"
        THEN [editor |-> [text |-> <<body.text>>, wrap |-> body.wrap,
                          color |-> "black"],
              raised |-> "none"]
        ELSE IF body.exc = "AssertionError"
        THEN [editor |-> [text |-> <<body.msg, "\n\n">>
                                      \o format_exc(body.exc, body.msg),
                          wrap |-> "WrapAtWordBoundaryOrAnywhere",
                          color |-> "red"],
              raised |-> "none"]
        ELSE [editor |-> [ed EXCEPT !.color = "black"], raised |-> body.exc]

\* _update_details_for_item on the editor ed: the editor afterwards and what
\* reaches the caller ("none": the call returns).
_update_details_for_item(ed, details, button_id, tree_item) ==
    LET body == details_try(details, button_id, tree_item)
    IN  IF body.exc = "none"
        THEN [editor |-> [text |-> <<body.text>>, wrap |-> body.wrap,
                          color |-> "black"],
              raised |-> "none"]
        ELSE [editor |-> [text |-> <<body.msg, "\n\n">>
                                      \o format_exc(body.exc, body.msg),
                          wrap |-> "WrapAtWordBoundaryOrAnywhere",
                          color |-> "red"],
              raised |-> "none"]

\* ------------------------------------------------------- attribute columns

\* Columns in an attribute_columns argument, at most.
MaxCols == 2

\* An attribute column: its name, its width and whether it is shown.
Col(name, width, col_visible) ==
    [name |-> name, width |-> width, col_visible |-> col_visible]

\* The sequences over S of length lo to hi.
SeqsOf(S, lo, hi) == UNION {[1..n -> S] : n \in lo..hi}

\* The attribute_columns of the windows of Spec, SpecSession and SpecRender.
SessionColumns == <<Col("name", 120, TRUE), Col("type", 80, FALSE)>>

\* sep.join(strs)
RECURSIVE join(_, _)
join(sep, strs) ==
    IF strs = <<>> THEN ""
    ELSE IF Len(strs) = 1 THEN strs[1]
    ELSE strs[1] \o sep \o join(sep, Tail(strs))

\* hashlib.md5(str.encode('utf-8')).hexdigest(): a digest that differs
\* whenever the strings differ.
md5_hexdigest(str) == "md5<" \o str \o ">"

\* _settings_group_name without the window number in the name.
_settings_group_name_no_window(cols, nr, postfix) ==
    LET column_names == join(",", [i \in 1..Len(cols) |-> cols[i].name])
        settings_str == column_names
        columns_hash == md5_hexdigest(settings_str)
    IN  columns_hash \o "_" \o postfix

\* _settings_group_name(postfix) of a window with columns cols and number nr.
_settings_group_name(cols, nr, postfix) ==
    LET column_names == join(",", [i \in 1..Len(cols) |-> cols[i].name])
        settings_str == column_names
        columns_hash == md5_hexdigest(settings_str)
    IN  columns_hash \o "_win" \o ToString(nr) \o "_" \o postfix

\* ----------------------------------------------------------- construction

\* Defaults of _readModelSettings.
default_refresh_rate == 2

\* _readModelSettings: both branches (reset or not) fill in the same defaults.
_readModelSettings(reset, ar, rr, sc, ss) ==
    [auto_refresh |-> OrDefault(ar, FALSE),
     refresh_rate |-> OrDefault(rr, default_refresh_rate),
     show_callable_attributes |-> OrDefault(sc, TRUE),
     show_special_attributes |-> OrDefault(ss, TRUE)]

\* The size of a header section that resizeSection was never called for.
defaultSectionSize == -1

\* _readViewSettings placing every window at the same position.
_readViewSettings_fixed_pos(reset, nr, cols) ==
    [pos |-> <<20, 20>>, size |-> <<1024, 700>>,
     details_button_idx |-> 0,
     section_sizes |->
         [i \in 1..Len(cols) |->
             IF cols[i].width > 0 THEN cols[i].width
             ELSE defaultSectionSize],
     section_hidden |-> [i \in 1..Len(cols) |-> ~cols[i].col_visible]]

\* _readViewSettings: position and size of the window, the details button
\* it checks, and the size and hidden flag of every header section. Nothing
\* is read from a store, with or without reset: header_restored stays False
\* and the columns give the sections, a width that is not positive leaving
\* the section as it is.
_readViewSettings(reset, nr, cols) ==
    [pos |-> <<20 * nr, 20 * nr>>, size |-> <<1024, 700>>,
     details_button_idx |-> 0,
     section_sizes |->
         [i \in 1..Len(cols) |->
             IF cols[i].width > 0 THEN cols[i].width
             ELSE defaultSectionSize],
     section_hidden |-> [i \in 1..Len(cols) |-> ~cols[i].col_visible]]

\* assert self._refresh_rate >= 0
valid_refresh_rate_nonneg(rate) == rate >= 0

\* assert self._refresh_rate > 0
valid_refresh_rate(rate) == rate > 0

\* __init__ expanding the first row when the root item is not shown.
initial_expansion_hidden_root(visible, first_row_index) ==
    IF ~visible THEN {first_row_index} ELSE {}

\* The items __init__ expands once the first row is the current one.
initial_expansion(visible, first_row_index) ==
    IF visible THEN {first_row_index} ELSE {}

\* ------------------------------------------------------------ refresh timer

\* A QTimer: whether it runs, the seconds until it fires and its interval
\* (setInterval(self._refresh_rate * 1000), in milliseconds there).
TimerOf(s) ==
    [active |-> timer_active[s], remaining |-> remaining[s],
     interval |-> refresh_rate[s]]

\* QTimer.start(): starts the timer, or stops and restarts a running one.
QTimer_start(t) == [t EXCEPT !.active = TRUE, !.remaining = t.interval]

\* QTimer.stop()
QTimer_stop(t) == [t EXCEPT !.active = FALSE, !.remaining = 0]

\* toggle_auto_refresh that sets the flag and leaves the timer alone.
toggle_auto_refresh_flag_only(checked, t) ==
    [timer |-> t, auto_refresh |-> checked]

\* toggle_auto_refresh that starts the timer and never stops it.
toggle_auto_refresh_no_stop(checked, t) ==
    [timer |-> IF checked THEN QTimer_start(t) ELSE t,
     auto_refresh |-> checked]

\* toggle_auto_refresh that leaves a running timer as it is.
toggle_auto_refresh_keeps_running(checked, t) ==
    [timer |-> IF checked THEN (IF t.active THEN t ELSE QTimer_start(t))
               ELSE QTimer_stop(t),
     auto_refresh |-> checked]

\* toggle_auto_refresh(checked): the timer and the flag afterwards.
toggle_auto_refresh(checked, t) ==
    [timer |-> IF checked THEN QTimer_start(t) ELSE QTimer_stop(t),
     auto_refresh |-> checked]

\* The window the next construction creates: the lowest one not yet used.
Fresh(s) ==
    /\ state[s] = "Unborn"
    /\ \A t \in Sessions : t < s => state[t] # "Unborn"

\* The record of the last operation: the operation, its window, what it
\* raised, the index it got from the registry, for a signal the signal and
\* the slot that ran, and for a construction its reset argument.
NoResult == [op |-> "none", sid |-> 0, exc |-> "none", ret |-> -1,
             sig |-> "none", slot |-> "none"]

\* ObjectBrowser(obj, refresh_rate=rr, auto_refresh=ar,
\*               show_callable_attributes=sc, show_special_attributes=ss,
\*               reset=reset) constructing window s.
Create(s, rr, ar, sc, ss, reset) ==
    LET acq == _add_instance(browsers, s)
        ms == _readModelSettings(reset, ar, rr, sc, ss)
        vs == _readViewSettings(reset, acq.idx, attr_cols)
        ok == valid_refresh_rate(ms.refresh_rate)
        first_row == 1
        timer == [active |-> FALSE, remaining |-> 0,
                  interval |-> ms.refresh_rate]
        checked == IF ms.auto_refresh
                   THEN toggle_auto_refresh(TRUE, timer).timer ELSE timer
        shown == _update_details_for_item(NewEditor, attr_details,
                                          vs.details_button_idx, first_row)
    IN  /\ Fresh(s)
        /\ browsers' = acq.browsers
        /\ instance_nr' = [instance_nr EXCEPT ![s] = acq.idx]
        /\ refresh_rate' = [refresh_rate EXCEPT ![s] = ms.refresh_rate]
        /\ show_callables' =
               [show_callables EXCEPT ![s] = ms.show_callable_attributes]
        /\ show_specials' =
               [show_specials EXCEPT ![s] = ms.show_special_attributes]
        /\ checked_id' = [checked_id EXCEPT ![s] = vs.details_button_idx]
        /\ geometry' = [geometry EXCEPT ![s] = [pos |-> vs.pos,
                                                 size |-> vs.size]]
        /\ header' = [header EXCEPT ![s] = [sizes |-> vs.section_sizes,
                                             hidden |-> vs.section_hidden]]
        /\ IF ok
           THEN /\ state' = [state EXCEPT ![s] = "Ready"]
                /\ connected' = [connected EXCEPT ![s] = Signals]
                /\ action_checked' =
                       [action_checked EXCEPT ![s] =
                           [callable |-> ms.show_callable_attributes,
                            special |-> ms.show_special_attributes,
                            auto |-> ms.auto_refresh]]
                /\ auto_refresh' = [auto_refresh EXCEPT ![s] = ms.auto_refresh]
                /\ timer_active' = [timer_active EXCEPT ![s] = checked.active]
                /\ remaining' = [remaining EXCEPT ![s] = checked.remaining]
                /\ current' = [current EXCEPT ![s] = first_row]
                /\ expanded' =
                       [expanded EXCEPT ![s] =
                           initial_expansion(inspectedNodeIsVisible,
                                             first_row)]
                /\ editor' = [editor EXCEPT ![s] = shown.editor]
                /\ last' = [op |-> "create", sid |-> s, exc |-> "none",
                            ret |-> acq.idx, sig |-> "none",
                            slot |-> "none", reset |-> reset]
           ELSE /\ state' = [state EXCEPT ![s] = "Created"]
                /\ connected' =
                       [connected EXCEPT ![s] =
                           setup_actions_signals \cup setup_menu_signals
                               \cup setup_views_signals]
                /\ auto_refresh' = [auto_refresh EXCEPT ![s] = ms.auto_refresh]
                /\ UNCHANGED <<action_checked, timer_active, current, editor,
                               remaining, expanded>>
                /\ last' = [op |-> "create", sid |-> s,
                            exc |-> "AssertionError", ret |-> acq.idx,
                            sig |-> "none", slot |-> "none",
                            reset |-> reset]
        /\ live_peak' =
               LET live == Cardinality({t \in Sessions : state'[t] = "Ready"})
               IN  IF live > live_peak THEN live ELSE live_peak
        /\ UNCHANGED config

\* ------------------------------------------------------------------ closing

\* The disconnect calls of _finalize from the i-th on: each raises TypeError
\* when its signal is not connected, and the ones before it have taken effect.
RECURSIVE disconnect_from(_, _)
disconnect_from(conn, i) ==
    IF i > Len(finalize_order) THEN [connected |-> conn, exc |-> "none"]
    ELSE IF finalize_order[i] \notin conn
    THEN [connected |-> conn, exc |-> "TypeError"]
    ELSE disconnect_from(conn \ {finalize_order[i]}, i + 1)

\* _finalize: stops the timer t, then disconnects.
_finalize(conn, t) ==
    LET cut == disconnect_from(conn, 1)
    IN  [timer |-> QTimer_stop(t), connected |-> cut.connected,
         exc |-> cut.exc]

\* closeEvent with a forgiving clean-up: a failed disconnect is ignored and
\* the slot is freed by the stored number, self._browsers[self._instance_nr].
closeEvent_lenient(bs, conn, self) ==
    LET freed == [bs EXCEPT ![instance_nr[self] + 1] = None]
    IN  [browsers |-> freed, connected |-> conn \ Range(finalize_order),
         timer |-> QTimer_stop(TimerOf(self)),
         closed |-> TRUE, exc |-> about_to_quit(freed)]

\* closeEvent of window self: the registry and the connections afterwards,
\* whether the window got closed, and what the call raises.
closeEvent(bs, conn, self) ==
    LET fin == _finalize(conn, TimerOf(self))
        rem == _remove_instance(bs, self)
    IN  IF fin.exc # "none"
        THEN [browsers |-> bs, connected |-> fin.connected,
              timer |-> fin.timer, closed |-> FALSE, exc |-> fin.exc]
        ELSE IF rem.exc # "none"
        THEN [browsers |-> bs, connected |-> fin.connected,
              timer |-> fin.timer, closed |-> TRUE, exc |-> rem.exc]
        ELSE [browsers |-> rem.browsers, connected |-> fin.connected,
              timer |-> fin.timer, closed |-> TRUE,
              exc |-> about_to_quit(rem.browsers)]

\* The window s receives a close event (a first one, or one more).
CloseEvent(s) ==
    LET out == closeEvent(browsers, connected[s], s)
    IN  /\ state[s] \in {"Ready", "Closed"}
        /\ browsers' = out.browsers
        /\ connected' = [connected EXCEPT ![s] = out.connected]
        /\ timer_active' = [timer_active EXCEPT ![s] = out.timer.active]
        /\ remaining' = [remaining EXCEPT ![s] = out.timer.remaining]
        /\ state' = [state EXCEPT ![s] = IF out.closed THEN "Closed" ELSE @]
        /\ last' = [op |-> "closeEvent", sid |-> s, exc |-> out.exc,
                    ret |-> -1, sig |-> "none", slot |-> "none"]
        /\ UNCHANGED <<instance_nr, refresh_rate, auto_refresh,
                       show_callables, show_specials, action_checked,
                       checked_id, current, editor, geometry, header,
                       expanded, config, live_peak>>

\* about_to_quit called on window s outside of a close event.
AboutToQuit(s) ==
    /\ state[s] \in {"Ready", "Closed"}
    /\ last' = [op |-> "about_to_quit", sid |-> s,
                exc |-> about_to_quit(browsers), ret |-> -1, sig |-> "none",
                slot |-> "none"]
    /\ UNCHANGED <<browsers, state, instance_nr, refresh_rate, auto_refresh,
                   timer_active, connected, show_callables, show_specials,
                   action_checked, checked_id, current, editor, geometry,
                   remaining, header, expanded, config, live_peak>>

\* ------------------------------------------------- the registry's behaviour

\* Before any window is constructed.
InitWindows ==
    /\ browsers = <<>>
    /\ state = [s \in Sessions |-> "Unborn"]
    /\ instance_nr = [s \in Sessions |-> -1]
    /\ refresh_rate = [s \in Sessions |-> 0]
    /\ auto_refresh = [s \in Sessions |-> FALSE]
    /\ timer_active = [s \in Sessions |-> FALSE]
    /\ connected = [s \in Sessions |-> {}]
    /\ show_callables = [s \in Sessions |-> FALSE]
    /\ show_specials = [s \in Sessions |-> FALSE]
    /\ action_checked =
           [s \in Sessions |->
               [callable |-> FALSE, special |-> FALSE, auto |-> FALSE]]
    /\ checked_id = [s \in Sessions |-> -1]
    /\ current = [s \in Sessions |-> 0]
    /\ editor = [s \in Sessions |-> NewEditor]
    /\ geometry = [s \in Sessions |-> [pos |-> <<0, 0>>, size |-> <<0, 0>>]]
    /\ remaining = [s \in Sessions |-> 0]
    /\ header = [s \in Sessions |-> [sizes |-> <<>>, hidden |-> <<>>]]
    /\ expanded = [s \in Sessions |-> {}]
    /\ live_peak = 0
    /\ last = NoResult

\* No method is applied on its own.
NoCall == [fn |-> "none"]

Init ==
    /\ InitWindows
    /\ attr_details = SessionDetails
    /\ attr_cols = SessionColumns
    /\ inspectedNodeIsVisible = TRUE
    /\ call = NoCall

\* The refresh_rate arguments windows are constructed with: the default and
\* one that is not positive.
RegistryRates == {{}, {0}}

Construct ==
    \E s \in 1..MaxSessions, rr \in RegistryRates :
        Create(s, rr, {}, {}, {}, FALSE)

Close == \E s \in 1..MaxSessions : CloseEvent(s)

Quit == \E s \in 1..MaxSessions : AboutToQuit(s)

Next == Construct \/ Close \/ Quit

Spec == Init /\ [][Next]_vars

\* ------------------------------------------------------ signals and slots

\* Signal sig of window s is emitted with argument arg: the slot connected
\* to it, if any, runs to completion. cid and cur are the checked details
\* button and the current tree item at that moment. elapsed says that the
\* emission is the running timer's own, at the end of its interval: the
\* timer then starts its next interval. An emission of timeout from
\* elsewhere leaves the timer as it is.
Emitted(s, sig, arg, cid, cur, elapsed) ==
    LET slot == IF sig \in connected[s] THEN SlotOf(sig) ELSE "none"
    IN  /\ show_callables' =
               IF slot = "setShowCallables"
               THEN [show_callables EXCEPT ![s] = arg] ELSE show_callables
        /\ show_specials' =
               IF slot = "setShowSpecialAttributes"
               THEN [show_specials EXCEPT ![s] = arg] ELSE show_specials
        /\ auto_refresh' =
               IF slot = "toggle_auto_refresh"
               THEN [auto_refresh EXCEPT
                        ![s] = toggle_auto_refresh(arg,
                                                   TimerOf(s)).auto_refresh]
               ELSE auto_refresh
        /\ timer_active' =
               IF slot = "toggle_auto_refresh"
               THEN [timer_active EXCEPT
                        ![s] = toggle_auto_refresh(arg,
                                                   TimerOf(s)).timer.active]
               ELSE timer_active
        /\ remaining' =
               IF slot = "toggle_auto_refresh"
               THEN [remaining EXCEPT
                        ![s] = toggle_auto_refresh(arg,
                                                   TimerOf(s)).timer.remaining]
               ELSE IF elapsed
               THEN [remaining EXCEPT ![s] = refresh_rate[s]]
               ELSE remaining
        /\ editor' =
               IF slot = "_change_details_field"
               THEN [editor EXCEPT ![s] =
                        _update_details_for_item(@, attr_details, cid,
                                                 cur).editor]
               ELSE IF slot = "_update_details"
               THEN [editor EXCEPT ![s] =
                        _update_details_for_item(@, attr_details, cid,
                                                 arg).editor]
               ELSE editor
        /\ last' = [op |-> "signal", sid |-> s, exc |-> "none", ret |-> -1,
                    sig |-> sig, slot |-> slot]
        /\ UNCHANGED <<browsers, state, instance_nr, refresh_rate, connected,
                       geometry, header, expanded, config, live_peak>>

\* The user toggles "Show callable attributes" of the open window s.
ToggleCallable(s) ==
    /\ state[s] = "Ready"
    /\ action_checked' =
           [action_checked EXCEPT ![s].callable = ~action_checked[s].callable]
    /\ Emitted(s, SIG_CALLABLE, ~action_checked[s].callable, checked_id[s],
               current[s], FALSE)
    /\ UNCHANGED <<checked_id, current>>

\* The user toggles "Show __special__ attributes" of the open window s.
ToggleSpecial(s) ==
    /\ state[s] = "Ready"
    /\ action_checked' =
           [action_checked EXCEPT ![s].special = ~action_checked[s].special]
    /\ Emitted(s, SIG_SPECIAL, ~action_checked[s].special, checked_id[s],
               current[s], FALSE)
    /\ UNCHANGED <<checked_id, current>>

\* The user toggles "Auto-refresh" of the open window s.
ToggleAutoRefresh(s) ==
    /\ state[s] = "Ready"
    /\ action_checked' =
           [action_checked EXCEPT ![s].auto = ~action_checked[s].auto]
    /\ Emitted(s, SIG_AUTO, ~action_checked[s].auto, checked_id[s],
               current[s], FALSE)
    /\ UNCHANGED <<checked_id, current>>

\* The user presses F5 in the open window s.
PressF5(s) ==
    /\ state[s] = "Ready"
    /\ Emitted(s, SIG_F5, FALSE, checked_id[s], current[s],
               FALSE)
    /\ UNCHANGED <<action_checked, checked_id, current>>

\* The user picks View > Refresh (Ctrl+R) in the open window s.
MenuRefresh(s) ==
    /\ state[s] = "Ready"
    /\ Emitted(s, SIG_MENU_REFRESH, FALSE, checked_id[s], current[s],
               FALSE)
    /\ UNCHANGED <<action_checked, checked_id, current>>

\* A second passes for the running refresh timer of window s.
Tick(s) ==
    /\ timer_active[s]
    /\ remaining[s] > 0
    /\ remaining' = [remaining EXCEPT ![s] = @ - 1]
    /\ last' = [op |-> "tick", sid |-> s, exc |-> "none", ret |-> -1,
                sig |-> "none", slot |-> "none"]
    /\ UNCHANGED <<browsers, state, instance_nr, refresh_rate, auto_refresh,
                   timer_active, connected, show_callables, show_specials,
                   action_checked, checked_id, current, editor, geometry,
                   header, expanded, config, live_peak>>

\* The user picks Help > About in the open window s: about shows a message
\* box and changes nothing of the window.
MenuAbout(s) ==
    /\ state[s] = "Ready"
    /\ Emitted(s, SIG_ABOUT, FALSE, checked_id[s], current[s],
               FALSE)
    /\ UNCHANGED <<action_checked, checked_id, current>>

\* The running refresh timer of window s times out, and runs on.
Timeout(s) ==
    /\ timer_active[s]
    /\ remaining[s] = 0
    /\ Emitted(s, SIG_TIMEOUT, FALSE, checked_id[s], current[s], TRUE)
    /\ UNCHANGED <<action_checked, checked_id, current>>

\* The details buttons in a group that is not exclusive: a click on the
\* checked button unchecks it.
ClickDetail_unchecks(s, id) ==
    /\ state[s] = "Ready"
    /\ checked_id' = [checked_id EXCEPT ![s] = IF @ = id THEN -1 ELSE id]
    /\ Emitted(s, SIG_BUTTON, id, id, current[s], FALSE)
    /\ UNCHANGED <<action_checked, current>>

\* The user clicks details button id of the open window s.
ClickDetail(s, id) ==
    /\ state[s] = "Ready"
    /\ checked_id' = [checked_id EXCEPT ![s] = id]
    /\ Emitted(s, SIG_BUTTON, id, id, current[s], FALSE)
    /\ UNCHANGED <<action_checked, current>>

\* The user makes another tree item the current one in the open window s.
SelectItem(s, n) ==
    /\ state[s] = "Ready"
    /\ n # current[s]
    /\ current' = [current EXCEPT ![s] = n]
    /\ Emitted(s, SIG_CURRENT, n, checked_id[s], n, FALSE)
    /\ UNCHANGED <<action_checked, checked_id>>

\* What a signal carries.
ArgsOf(sig) ==
    IF sig \in {SIG_CALLABLE, SIG_SPECIAL, SIG_AUTO} THEN BOOLEAN
    ELSE IF sig = SIG_BUTTON THEN 0..(NumDetails - 1)
    ELSE IF sig = SIG_CURRENT THEN Nodes
    ELSE {FALSE}

\* A signal of the closed window s is emitted (its actions, buttons, timer
\* and selection model outlive the close event). The emission is not the
\* timer's own timing out (that is Timeout), so a running timer goes on
\* with the time it has left.
EmitClosed(s, sig, arg) ==
    /\ state[s] = "Closed"
    /\ Emitted(s, sig, arg, checked_id[s], current[s], FALSE)
    /\ UNCHANGED <<action_checked, checked_id, current>>

\* ---------------------------------------------------- a window's behaviour

\* The arguments windows are constructed with in SpecSession.
SessionRates == {{}, {0}, {-5}}

OptBool == {{}, {TRUE}, {FALSE}}

ConstructWindow ==
    \E s \in 1..MaxWindows, rr \in SessionRates, ar \in OptBool,
       sc \in OptBool, ss \in OptBool, reset \in BOOLEAN :
        Create(s, rr, ar, sc, ss, reset)

CloseWindow == \E s \in 1..MaxWindows : CloseEvent(s)

QuitCheck == \E s \in 1..MaxWindows : AboutToQuit(s)

UserToggleCallable == \E s \in 1..MaxWindows : ToggleCallable(s)

UserToggleSpecial == \E s \in 1..MaxWindows : ToggleSpecial(s)

UserToggleAutoRefresh == \E s \in 1..MaxWindows : ToggleAutoRefresh(s)

UserPressF5 == \E s \in 1..MaxWindows : PressF5(s)

UserMenuRefresh == \E s \in 1..MaxWindows : MenuRefresh(s)

UserMenuAbout == \E s \in 1..MaxWindows : MenuAbout(s)

TimePasses == \E s \in 1..MaxWindows : Tick(s)

TimerTimeout == \E s \in 1..MaxWindows : Timeout(s)

UserClickDetail ==
    \E s \in 1..MaxWindows, id \in 0..(NumDetails - 1) : ClickDetail(s, id)

UserSelectItem == \E s \in 1..MaxWindows, n \in Nodes : SelectItem(s, n)

SignalAfterClose ==
    \E s \in 1..MaxWindows, sig \in Signals :
        \E arg \in ArgsOf(sig) : EmitClosed(s, sig, arg)

NextSession ==
    \/ ConstructWindow
    \/ CloseWindow
    \/ QuitCheck
    \/ UserToggleCallable
    \/ UserToggleSpecial
    \/ UserToggleAutoRefresh
    \/ UserPressF5
    \/ UserMenuRefresh
    \/ UserMenuAbout
    \/ TimePasses
    \/ TimerTimeout
    \/ UserClickDetail
    \/ UserSelectItem
    \/ SignalAfterClose

SpecSession == Init /\ [][NextSession]_vars

\* ------------------------------------------- the details pane as a function

\* Window 1 open, built with any attribute_details list, after the user has
\* made any tree item the current one and clicked any details button: the
\* editor shows that detail of that item.
InitRender ==
    /\ browsers = <<1>>
    /\ state = [s \in Sessions |-> IF s = 1 THEN "Ready" ELSE "Unborn"]
    /\ instance_nr = [s \in Sessions |-> IF s = 1 THEN 0 ELSE -1]
    /\ refresh_rate =
           [s \in Sessions |-> IF s = 1 THEN default_refresh_rate ELSE 0]
    /\ auto_refresh = [s \in Sessions |-> FALSE]
    /\ timer_active = [s \in Sessions |-> FALSE]
    /\ connected = [s \in Sessions |-> IF s = 1 THEN Signals ELSE {}]
    /\ show_callables = [s \in Sessions |-> s = 1]
    /\ show_specials = [s \in Sessions |-> s = 1]
    /\ action_checked =
           [s \in Sessions |->
               [callable |-> s = 1, special |-> s = 1, auto |-> FALSE]]
    /\ checked_id \in
           {[s \in Sessions |-> IF s = 1 THEN id ELSE -1] :
               id \in 0..(NumDetails - 1)}
    /\ current \in
           {[s \in Sessions |-> IF s = 1 THEN n ELSE 0] : n \in Nodes}
    /\ attr_details \in AllDetails
    /\ editor =
           [s \in Sessions |->
               IF s = 1
               THEN _update_details_for_item(NewEditor, attr_details,
                                             checked_id[1],
                                             current[1]).editor
               ELSE NewEditor]
    /\ geometry =
           [s \in Sessions |->
               IF s = 1 THEN [pos |-> <<0, 0>>, size |-> <<1024, 700>>]
               ELSE [pos |-> <<0, 0>>, size |-> <<0, 0>>]]
    /\ remaining = [s \in Sessions |-> 0]
    /\ header =
           [s \in Sessions |->
               IF s = 1
               THEN [sizes |-> _readViewSettings(FALSE, 0,
                                                 SessionColumns).section_sizes,
                     hidden |-> _readViewSettings(FALSE, 0,
                                                  SessionColumns).section_hidden]
               ELSE [sizes |-> <<>>, hidden |-> <<>>]]
    /\ expanded = [s \in Sessions |-> IF s = 1 THEN {1} ELSE {}]
    /\ live_peak = 1
    /\ attr_cols = SessionColumns
    /\ inspectedNodeIsVisible = TRUE
    /\ call = NoCall
    /\ last = NoResult

\* The caller removes the last entry of the list it passed as
\* attribute_details. The window keeps that list itself, not a copy, so its
\* _attr_details is shorter too; the details buttons stay as they are.
PopDetails ==
    /\ state[1] = "Ready"
    /\ Len(attr_details) > 0
    /\ attr_details' = SubSeq(attr_details, 1, Len(attr_details) - 1)
    /\ last' = [op |-> "pop", sid |-> 1, exc |-> "none", ret |-> -1,
                sig |-> "none", slot |-> "none"]
    /\ UNCHANGED <<browsers, state, instance_nr, refresh_rate, auto_refresh,
                   timer_active, connected, show_callables, show_specials,
                   action_checked, checked_id, current, editor, geometry,
                   remaining, header, expanded, attr_cols,
                   inspectedNodeIsVisible, call, live_peak>>

\* _update_details_for_item is called with the current item of window 1 (a
\* click on the checked details button does that).
Render ==
    LET out == _update_details_for_item(editor[1], attr_details,
                                        checked_id[1], current[1])
    IN  /\ editor' = [editor EXCEPT ![1] = out.editor]
        /\ last' = [op |-> "render", sid |-> 1, exc |-> out.raised,
                    ret |-> -1, sig |-> "none",
                    slot |-> "_update_details_for_item"]
        /\ UNCHANGED <<browsers, state, instance_nr, refresh_rate,
                       auto_refresh, timer_active, connected, show_callables,
                       show_specials, action_checked, checked_id, current,
                       geometry, remaining, header, expanded, config,
                       live_peak>>

NextRender == Render \/ PopDetails

SpecRender == InitRender /\ [][NextRender]_vars

\* ------------------------------------------------------------ the registry

\* The free slots of a list, as 0-based indices.
FreeSlots(bs) == {i \in 0..(Len(bs) - 1) : bs[i + 1] = None}

\* The slot an acquisition is to use: the lowest free one, else a new one.
ExpectedSlot(bs) ==
    IF FreeSlots(bs) # {}
    THEN CHOOSE i \in FreeSlots(bs) : \A j \in FreeSlots(bs) : i <= j
    ELSE Len(bs)

\* C1: a window being constructed is put in the free slot of lowest index,
\* or in a new slot at the end when none is free (the list then grows by
\* that one slot); the other slots are untouched and the index returned,
\* which becomes the window's _instance_nr, is that slot's.
AcquireLowestFree ==
    [][\A s \in Sessions :
          (state[s] = "Unborn" /\ state'[s] # "Unborn") =>
              LET want == ExpectedSlot(browsers)
              IN  /\ last'.op = "create" /\ last'.sid = s
                  /\ last'.ret = want
                  /\ instance_nr'[s] = want
                  /\ Len(browsers') =
                         IF FreeSlots(browsers) = {} THEN Len(browsers) + 1
                         ELSE Len(browsers)
                  /\ browsers'[want + 1] = s
                  /\ \A i \in 1..Len(browsers) :
                         i # want + 1 => browsers'[i] = browsers[i]]_vars

\* C1's case: three windows got 0, 1, 2, the one in slot 1 was closed and the
\* window constructed next got slot 1.
AcquireLowestFreeWitness ==
    /\ last.op = "create" /\ last.ret = 1 /\ last.exc = "none"
    /\ Len(browsers) = 3
    /\ \A i \in 1..3 : browsers[i] # None
    /\ \E a, b, c \in Sessions :
          /\ a < b /\ b < c /\ c < last.sid
          /\ instance_nr[a] = 0 /\ instance_nr[b] = 1 /\ instance_nr[c] = 2
          /\ state[a] = "Ready" /\ state[b] = "Closed" /\ state[c] = "Ready"

\* C2: every open window is in exactly one slot, the slot its _instance_nr
\* names, and no two open windows have the same _instance_nr.
RegistryUniqueness ==
    \A s \in Sessions :
        state[s] = "Ready" =>
            /\ Cardinality({i \in 1..Len(browsers) : browsers[i] = s}) = 1
            /\ instance_nr[s] \in 0..(Len(browsers) - 1)
            /\ browsers[instance_nr[s] + 1] = s
            /\ \A t \in Sessions :
                   (t # s /\ state[t] = "Ready") =>
                       instance_nr[t] # instance_nr[s]

\* C2's case: two windows are open, one of them in a slot that a window
\* closed before it had held.
RegistryUniquenessWitness ==
    \E s, t, c \in Sessions :
        /\ s # t /\ state[s] = "Ready" /\ state[t] = "Ready"
        /\ state[c] = "Closed" /\ instance_nr[c] = instance_nr[s]

\* C3 (as claimed): the close event of an open window, with another window
\* still open, closes it and frees its slot without raising.
CloseWithOthersOpenSucceeds ==
    [][\A s \in Sessions :
          (/\ state[s] = "Ready"
           /\ last'.op = "closeEvent" /\ last'.sid = s
           /\ \E t \in Sessions : t # s /\ state[t] = "Ready") =>
              /\ state'[s] = "Closed"
              /\ index(browsers', s) = -1
              /\ last'.exc = "none"]_vars

\* C5 (as claimed): a construction that fails leaves the registry as it was.
FailedCreateLeavesRegistry ==
    [][(last'.op = "create" /\ last'.exc # "none"
            /\ \E s \in Sessions : state[s] = "Unborn" /\ state'[s] # "Unborn")
          => browsers' = browsers]_vars

\* C8: about_to_quit raises exactly when some slot of the list is occupied,
\* whoever occupies it, returns normally when every slot is free, and leaves
\* the list as it is; the call of it that ends a close event raises exactly
\* when a slot is still occupied once the closed window's slot is freed.
VerifyAllReleased ==
    [][/\ last'.op = "about_to_quit" =>
              /\ browsers' = browsers
              /\ (last'.exc = "AssertionError") <=>
                     (FreeSlots(browsers) # 0..(Len(browsers) - 1))
              /\ (last'.exc = "none") <=>
                     (FreeSlots(browsers) = 0..(Len(browsers) - 1))
       /\ \A s \in Sessions :
              (state[s] = "Ready" /\ state'[s] = "Closed") =>
                  /\ (last'.exc = "AssertionError") <=>
                         (FreeSlots(browsers') # 0..(Len(browsers') - 1))
                  /\ (last'.exc = "none") <=>
                         (FreeSlots(browsers') = 0..(Len(browsers') - 1))]_vars

\* C8's case: about_to_quit is called on a closed window and raises, the
\* first slot being free and a later one occupied by another window.
VerifyAllReleasedWitness ==
    /\ last.op = "about_to_quit" /\ last.exc = "AssertionError"
    /\ state[last.sid] = "Closed"
    /\ Len(browsers) >= 2 /\ browsers[1] = None
    /\ \E i \in 2..Len(browsers) : browsers[i] # None

\* C9: the close event of an open window sets that window's slot to None
\* and nothing else: the list keeps its length, every other slot keeps its
\* occupant, and every other window keeps its _instance_nr and its slot.
ReleaseFrame ==
    [][\A s \in Sessions :
          (state[s] = "Ready" /\ state'[s] = "Closed") =>
              /\ Len(browsers') = Len(browsers)
              /\ \A i \in 1..Len(browsers) :
                     browsers'[i] = IF browsers[i] = s THEN None
                                    ELSE browsers[i]
              /\ \A t \in Sessions :
                     t # s =>
                         /\ instance_nr'[t] = instance_nr[t]
                         /\ index(browsers', t) = index(browsers, t)]_vars

\* C9's case: a window was closed whose slot lies before the slot of a
\* window that is still open.
ReleaseFrameWitness ==
    /\ last.op = "closeEvent" /\ state[last.sid] = "Closed"
    /\ browsers[instance_nr[last.sid] + 1] = None
    /\ \E t \in Sessions :
          /\ state[t] = "Ready" /\ instance_nr[t] > instance_nr[last.sid]
          /\ browsers[instance_nr[t] + 1] = t

\* C10: a close event on a window that is already closed raises and leaves
\* the registry as it is.
DoubleCloseFails ==
    [][\A s \in Sessions :
          (state[s] = "Closed" /\ last'.op = "closeEvent" /\ last'.sid = s)
              => (last'.exc # "none" /\ browsers' = browsers)]_vars

\* C10's case: a closed window got one more close event, which raised, while
\* another window holds the slot it had.
DoubleCloseFailsWitness ==
    /\ last.op = "closeEvent" /\ last.exc = "TypeError"
    /\ state[last.sid] = "Closed"
    /\ \E t \in Sessions :
          /\ t # last.sid /\ state[t] = "Ready"
          /\ instance_nr[t] = instance_nr[last.sid]
          /\ browsers[instance_nr[t] + 1] = t

\* ---------------------------------------------------------------- teardown

\* C4 (as claimed): a signal of a closed window runs no slot.
NoSlotAfterClose ==
    (last.op = "signal" /\ state[last.sid] = "Closed") => last.slot = "none"

\* -------------------------------------------------------- the details pane

\* The button id selects one of the attribute details.
ValidButton(id) == id \in 0..(Len(attr_details) - 1)

\* C6: with a valid details button checked, _update_details_for_item never
\* raises; when the data_fn raises, the editor is red, wraps anywhere and its
\* text contains the exception's message; when the data_fn returns, the
\* editor is black and holds the returned text with the detail's line_wrap.
RenderIsolatesFaults ==
    (last.op = "render" /\ ValidButton(checked_id[1])) =>
        LET detail == attr_details[checked_id[1] + 1]
            data == detail.data_fn[current[1]]
        IN  /\ last.exc = "none"
            /\ data.raises =>
                   /\ editor[1].color = "red"
                   /\ editor[1].wrap = "WrapAtWordBoundaryOrAnywhere"
                   /\ \E i \in 1..Len(editor[1].text) :
                          editor[1].text[i] = data.value
            /\ ~data.raises =>
                   /\ editor[1].color = "black"
                   /\ editor[1].wrap = detail.line_wrap
                   /\ editor[1].text = <<data.value>>

\* C6's case: the data_fn of the checked detail raised on the item rendered.
RenderIsolatesFaultsWitness ==
    /\ last.op = "render" /\ ValidButton(checked_id[1])
    /\ attr_details[checked_id[1] + 1].data_fn[current[1]].raises
    /\ attr_details[checked_id[1] + 1].line_wrap = "NoWrap"
    /\ editor[1].color = "red"

\* C7 (as claimed): with no details button checked, or an id past the last
\* detail (the checked button's detail is no longer in the list),
\* _update_details_for_item raises and does not show the failure as error
\* text in the editor.
InvalidSelectionIsFatal ==
    (last.op = "render" /\ ~ValidButton(checked_id[1])) =>
        (last.exc # "none" /\ editor[1].color # "red")

\* ------------------------------------- the settings group name as a function

\* The names a column may have; one of them holds the separator of the join.
ColumnNames == {"id", "id,id", "type"}

\* The postfixes of the model settings and of the view settings.
Postfixes == {"model", "view"}

\* Two windows' columns, a window number and a postfix, before
\* _settings_group_name is applied to them.
InitKeys ==
    /\ InitWindows
    /\ attr_details = SessionDetails
    /\ attr_cols = SessionColumns
    /\ inspectedNodeIsVisible = TRUE
    /\ call \in [fn : {"_settings_group_name"},
                 names : SeqsOf(ColumnNames, 1, MaxCols),
                 other : SeqsOf(ColumnNames, 1, MaxCols),
                 instance_nr : 0..(MaxSessions - 1),
                 postfix : Postfixes,
                 done : {FALSE},
                 result : {<<>>}]

\* The columns with the given names.
Named(names) == [i \in 1..Len(names) |-> Col(names[i], 0, TRUE)]

\* _settings_group_name is called for the one and for the other columns.
GroupNames ==
    /\ call.fn = "_settings_group_name"
    /\ ~call.done
    /\ call' = [call EXCEPT
                   !.done = TRUE,
                   !.result =
                       <<_settings_group_name(Named(call.names),
                                              call.instance_nr, call.postfix),
                         _settings_group_name(Named(call.other),
                                              call.instance_nr,
                                              call.postfix)>>]
    /\ last' = [op |-> "_settings_group_name", sid |-> 0, exc |-> "none",
                ret |-> -1, sig |-> "none", slot |-> "none"]
    /\ UNCHANGED <<browsers, state, instance_nr, refresh_rate, auto_refresh,
                   timer_active, connected, show_callables, show_specials,
                   action_checked, checked_id, current, editor, geometry,
                   remaining, header, expanded, attr_details, attr_cols,
                   inspectedNodeIsVisible, live_peak>>

NextKeys == GroupNames

SpecKeys == InitKeys /\ [][NextKeys]_vars

\* b is a reordering of a.
IsReordering(a, b) ==
    /\ Len(a) = Len(b)
    /\ \E p \in Permutations(1..Len(a)) : b = [i \in 1..Len(a) |-> a[p[i]]]

\* C11: the settings group name is order-sensitive: two different orderings
\* of the same column names, with the same window number and postfix, never
\* get the same group name.
GroupNameOrderSensitive ==
    (/\ call.fn = "_settings_group_name"
     /\ call.done
     /\ call.names # call.other
     /\ IsReordering(call.names, call.other))
        => call.result[1] # call.result[2]

\* ------------------------------------------- windows built with any columns

\* Windows that may be constructed in one run of SpecView.
MaxViews == 2

\* The widths a column may have: none given (0) and some pixels.
ColumnWidths == {0, 80}

\* The attribute_columns arguments of SpecView: MaxCols columns of any width
\* and visibility.
ViewColumns ==
    SeqsOf({Col("name", w, v) : w \in ColumnWidths, v \in BOOLEAN}, MaxCols,
           MaxCols)

\* Before any window is constructed, for any columns and any tree model.
InitView ==
    /\ InitWindows
    /\ attr_details = SessionDetails
    /\ attr_cols \in ViewColumns
    /\ inspectedNodeIsVisible \in BOOLEAN
    /\ call = NoCall

ConstructView ==
    \E s \in 1..MaxViews, reset \in BOOLEAN : Create(s, {}, {}, {}, {}, reset)

ChooseDetail ==
    \E s \in 1..MaxViews, id \in 0..(NumDetails - 1) : ClickDetail(s, id)

CloseView == \E s \in 1..MaxViews : CloseEvent(s)

NextView == ConstructView \/ ChooseDetail \/ CloseView

SpecView == InitView /\ [][NextView]_vars

\* Window s is constructed in this step, with reset as its reset argument.
Constructed(s, reset) ==
    /\ state[s] = "Unborn"
    /\ state'[s] = "Ready"
    /\ last'.op = "create"
    /\ last'.reset = reset

\* C12: the view settings a window had when it was closed are the ones a
\* later window with the same settings key (same columns, same window
\* number) starts with when it is constructed with reset=False.
ViewSettingsRoundTrip ==
    [][\A s \in Sessions, c \in Sessions :
          (/\ Constructed(s, FALSE)
           /\ state[c] = "Closed"
           /\ instance_nr[c] = instance_nr'[s]
           /\ \A d \in Sessions \ {c} :
                  state[d] = "Closed" => instance_nr[d] # instance_nr[c])
              => /\ checked_id'[s] = checked_id[c]
                 /\ geometry'[s] = geometry[c]
                 /\ header'[s] = header[c]]_vars

\* The sizes of the header sections when every column's width is applied.
SpecWidths == [i \in 1..Len(attr_cols) |-> attr_cols[i].width]

\* The sizes of the header sections when only positive widths are applied.
AppliedWidths ==
    [i \in 1..Len(attr_cols) |->
        IF attr_cols[i].width > 0 THEN attr_cols[i].width
        ELSE defaultSectionSize]

\* The hidden flags of the header sections the columns ask for.
SpecHidden == [i \in 1..Len(attr_cols) |-> ~attr_cols[i].col_visible]

\* A window constructed with the default view settings, the header sections
\* having the sizes widths.
DefaultView(s, widths) ==
    /\ geometry'[s] = [pos |-> <<20 * instance_nr'[s], 20 * instance_nr'[s]>>,
                       size |-> <<1024, 700>>]
    /\ checked_id'[s] = 0
    /\ header'[s] = [sizes |-> widths, hidden |-> SpecHidden]

\* C13 as stated: a window constructed with reset=True, or with reset=False
\* and nothing stored, gets the position of its window number, the default
\* size, every column's width and visibility and details button 0.
DefaultsWithEveryWidth ==
    [][\A s \in Sessions, reset \in BOOLEAN :
          Constructed(s, reset) => DefaultView(s, SpecWidths)]_vars

\* C13: a window constructed with reset=True, or with reset=False (nothing
\* is ever stored), gets the position of its window number, the default
\* size, every column's visibility, the width of every column whose width
\* is positive (a column of width 0 keeps the header's own section size)
\* and details button 0, whatever earlier windows were closed with.
DefaultsWithPositiveWidths ==
    [][\A s \in Sessions, reset \in BOOLEAN :
          Constructed(s, reset) => DefaultView(s, AppliedWidths)]_vars

\* A window was just constructed with reset=True in the slot of a closed
\* window that had details button 1 checked, with a column of width 0 and
\* a column of positive width.
DefaultsWithPositiveWidthsWitness ==
    /\ last.op = "create"
    /\ last.exc = "none"
    /\ last.reset
    /\ \E c \in Sessions :
           /\ state[c] = "Closed"
           /\ instance_nr[c] = last.ret
           /\ checked_id[c] = 1
    /\ \E i, j \in 1..Len(attr_cols) :
           attr_cols[i].width = 0 /\ attr_cols[j].width > 0

\* C20 as stated: a constructed window has its first row as the current
\* item, and that row is expanded when the root item is not shown.
ExpandsWhenRootHidden ==
    [][\A s \in Sessions, reset \in BOOLEAN :
          Constructed(s, reset) =>
              /\ current'[s] = 1
              /\ ~inspectedNodeIsVisible => 1 \in expanded'[s]]_vars

\* C20: a constructed window has its first row as the current item, and
\* that row is expanded exactly when the root item is shown.
ExpandsWhenRootShown ==
    [][\A s \in Sessions, reset \in BOOLEAN :
          Constructed(s, reset) =>
              /\ current'[s] = 1
              /\ expanded'[s] =
                     IF inspectedNodeIsVisible THEN {1} ELSE {}]_vars

\* A window is open whose root item is not shown and whose first row is
\* current and not expanded.
ExpandsWhenRootShownWitness ==
    \E s \in Sessions :
        /\ state[s] = "Ready"
        /\ ~inspectedNodeIsVisible
        /\ current[s] = 1
        /\ expanded[s] = {}

\* ------------------------------------------- the toggles and the refresh timer

\* Windows that may be constructed in one run of SpecToggles. (The two
\* filter toggles have a specification of their own, SpecFilters.)
MaxToggled == 1

\* toggle_auto_refresh(checked) is called on the window s, open or closed,
\* not through the action's signal. (A window whose construction failed
\* has no timer and no caller holds it.)
CallToggleAutoRefresh(s, checked) ==
    LET out == toggle_auto_refresh(checked, TimerOf(s))
    IN  /\ state[s] \in {"Ready", "Closed"}
        /\ auto_refresh' = [auto_refresh EXCEPT ![s] = out.auto_refresh]
        /\ timer_active' = [timer_active EXCEPT ![s] = out.timer.active]
        /\ remaining' = [remaining EXCEPT ![s] = out.timer.remaining]
        /\ last' = [op |-> "toggle_auto_refresh", sid |-> s, exc |-> "none",
                    ret |-> -1, sig |-> "none",
                    slot |-> "toggle_auto_refresh", checked |-> checked,
                    before |-> TimerOf(s)]
        /\ UNCHANGED <<browsers, state, instance_nr, refresh_rate, connected,
                       show_callables, show_specials, action_checked,
                       checked_id, current, editor, geometry, header,
                       expanded, config, live_peak>>

\* The refresh_rate arguments of SpecToggles: the default, one second, zero
\* and a negative rate.
ToggledRates == {{}, {1}, {0}, {-5}}

\* The signals of the auto-refresh and refresh actions and of the timer.
ToggleSignals == {SIG_TIMEOUT, SIG_AUTO, SIG_F5, SIG_MENU_REFRESH}

ConstructToggled ==
    \E s \in 1..MaxToggled, rr \in ToggledRates, ar \in OptBool :
        Create(s, rr, ar, {}, {}, FALSE)

CloseToggled == \E s \in 1..MaxToggled : CloseEvent(s)

CheckAutoRefresh == \E s \in 1..MaxToggled : ToggleAutoRefresh(s)

CallToggle ==
    \E s \in 1..MaxToggled, checked \in BOOLEAN :
        CallToggleAutoRefresh(s, checked)

PressRefresh == \E s \in 1..MaxToggled : PressF5(s)

PickRefresh == \E s \in 1..MaxToggled : MenuRefresh(s)

SecondPasses == \E s \in 1..MaxToggled : Tick(s)

TimerFires == \E s \in 1..MaxToggled : Timeout(s)

ToggleSignalAfterClose ==
    \E s \in 1..MaxToggled, sig \in ToggleSignals :
        \E arg \in ArgsOf(sig) : EmitClosed(s, sig, arg)

NextToggles ==
    \/ ConstructToggled
    \/ CloseToggled
    \/ CheckAutoRefresh
    \/ CallToggle
    \/ PressRefresh
    \/ PickRefresh
    \/ SecondPasses
    \/ TimerFires
    \/ ToggleSignalAfterClose

SpecToggles == Init /\ [][NextToggles]_vars

\* ------------------------------------------------------- the filter toggles

\* Windows that may be constructed in one run of SpecFilters.
MaxFiltered == 2

\* The signals of the two filter actions.
FilterSignals == {SIG_CALLABLE, SIG_SPECIAL}

ConstructFiltered ==
    \E s \in 1..MaxFiltered, sc \in OptBool, ss \in OptBool :
        Create(s, {}, {}, sc, ss, FALSE)

CloseFiltered == \E s \in 1..MaxFiltered : CloseEvent(s)

CheckCallable == \E s \in 1..MaxFiltered : ToggleCallable(s)

CheckSpecial == \E s \in 1..MaxFiltered : ToggleSpecial(s)

FilterSignalAfterClose ==
    \E s \in 1..MaxFiltered, sig \in FilterSignals :
        \E arg \in ArgsOf(sig) : EmitClosed(s, sig, arg)

NextFilters ==
    \/ ConstructFiltered
    \/ CloseFiltered
    \/ CheckCallable
    \/ CheckSpecial
    \/ FilterSignalAfterClose

SpecFilters == Init /\ [][NextFilters]_vars

\* Window s is constructed in this step, successfully or not.
Built(s) == state[s] = "Unborn" /\ state'[s] # "Unborn"

\* The timeout of the timer of window s runs refresh in this step.
TimerRefresh(s) ==
    /\ last'.op = "signal"
    /\ last'.sid = s
    /\ last'.sig = SIG_TIMEOUT
    /\ last'.slot = "refresh"

\* C14: a construction with a refresh rate that is 0 or negative raises
\* AssertionError, and the timer of that window is not connected, never
\* runs and never fires; with a positive rate the construction succeeds
\* with the timer connected.
RefreshRateValidated ==
    [][\A s \in Sessions :
          /\ Built(s) =>
                 IF refresh_rate'[s] > 0
                 THEN /\ state'[s] = "Ready"
                      /\ last'.exc = "none"
                      /\ SIG_TIMEOUT \in connected'[s]
                 ELSE /\ state'[s] = "Created"
                      /\ last'.exc = "AssertionError"
          /\ state'[s] = "Created" =>
                 /\ ~timer_active'[s]
                 /\ SIG_TIMEOUT \notin connected'[s]
                 /\ ~TimerRefresh(s)]_vars

\* The construction of a window with auto_refresh=True and refresh_rate=0
\* has just failed.
RefreshRateValidatedWitness ==
    /\ last.op = "create"
    /\ last.exc = "AssertionError"
    /\ state[last.sid] = "Created"
    /\ refresh_rate[last.sid] = 0
    /\ auto_refresh[last.sid]

\* C16: the proxy's two filter flags of an open window equal the checked
\* state of their toggle actions; a flag changes only when its action is
\* toggled (or the window is constructed), and a toggle sets it to the new
\* checked state of the action.
FiltersFollowToggles ==
    [][\A s \in Sessions :
          /\ state'[s] = "Ready" =>
                 /\ show_callables'[s] = action_checked'[s].callable
                 /\ show_specials'[s] = action_checked'[s].special
          /\ (state[s] = "Ready" /\ show_callables'[s] # show_callables[s])
                 => last' = [NoResult EXCEPT !.op = "signal", !.sid = s,
                                !.sig = SIG_CALLABLE,
                                !.slot = "setShowCallables"]
          /\ (state[s] = "Ready" /\ show_specials'[s] # show_specials[s])
                 => last' = [NoResult EXCEPT !.op = "signal", !.sid = s,
                                !.sig = SIG_SPECIAL,
                                !.slot = "setShowSpecialAttributes"]
          /\ (state[s] = "Ready" /\ last'.sid = s /\ last'.sig = SIG_CALLABLE)
                 => /\ show_callables'[s] = ~action_checked[s].callable
                    /\ show_specials'[s] = show_specials[s]
          /\ (state[s] = "Ready" /\ last'.sid = s /\ last'.sig = SIG_SPECIAL)
                 => /\ show_specials'[s] = ~action_checked[s].special
                    /\ show_callables'[s] = show_callables[s]]_vars

\* An open window whose callables are hidden and whose special attributes
\* are shown, the special attributes having been toggled last.
FiltersFollowTogglesWitness ==
    \E s \in Sessions :
        /\ state[s] = "Ready"
        /\ ~show_callables[s]
        /\ show_specials[s]
        /\ last.op = "signal"
        /\ last.sig = SIG_SPECIAL

\* toggle_auto_refresh(checked) runs for window s in this step, called
\* directly or by the action's signal.
ToggleRuns(s, checked) ==
    /\ last'.sid = s
    /\ \/ last'.op = "toggle_auto_refresh" /\ last'.checked = checked
       \/ /\ last'.op = "signal"
          /\ last'.slot = "toggle_auto_refresh"
          /\ action_checked'[s].auto = checked

\* C17: the timer of a window fires a refresh only while the window is open
\* with auto-refresh on, so never after auto-refresh is switched off and
\* never after the close; switching auto-refresh off and closing leave the
\* timer stopped, and stopping a timer that does not run (a second close,
\* auto-refresh off twice) changes nothing of the timer.
StopHaltsFirings ==
    [][\A s \in Sessions :
          /\ TimerRefresh(s) =>
                 state[s] = "Ready" /\ auto_refresh[s] /\ timer_active[s]
          /\ (state'[s] = "Ready" /\ ~auto_refresh'[s]) => ~timer_active'[s]
          /\ (ToggleRuns(s, FALSE) \/ (last'.op = "closeEvent"
                                        /\ last'.sid = s))
                 => ~timer_active'[s]
          /\ ((ToggleRuns(s, FALSE) \/ (last'.op = "closeEvent"
                                        /\ last'.sid = s))
              /\ ~timer_active[s])
                 => /\ ~timer_active'[s]
                    /\ remaining'[s] = remaining[s]]_vars

\* The timer of a closed window, started again by a call of
\* toggle_auto_refresh(True), has timed out, and that ran no slot.
StopHaltsFiringsWitness ==
    \E s \in Sessions :
        /\ state[s] = "Closed"
        /\ auto_refresh[s]
        /\ timer_active[s]
        /\ last.op = "signal"
        /\ last.sid = s
        /\ last.sig = SIG_TIMEOUT
        /\ last.slot = "none"

\* C18 as stated: toggle_auto_refresh(True) on a window whose timer runs
\* leaves the timer as it is, the time until it fires included, and leaves
\* the connections as they are.
StartIsIdempotent ==
    [][\A s \in Sessions :
          (ToggleRuns(s, TRUE) /\ timer_active[s])
              => /\ timer_active'[s]
                 /\ auto_refresh'[s]
                 /\ remaining'[s] = remaining[s]
                 /\ refresh_rate'[s] = refresh_rate[s]
                 /\ connected'[s] = connected[s]]_vars

\* C18: toggle_auto_refresh(True) on a window whose timer runs leaves the
\* timer running with the same interval and the same connections, and
\* restarts the interval: the time until it fires is the whole interval
\* again.
StartRestartsInterval ==
    [][\A s \in Sessions :
          (ToggleRuns(s, TRUE) /\ timer_active[s])
              => /\ timer_active'[s]
                 /\ auto_refresh'[s]
                 /\ remaining'[s] = refresh_rate[s]
                 /\ refresh_rate'[s] = refresh_rate[s]
                 /\ connected'[s] = connected[s]]_vars

\* toggle_auto_refresh(True) was just called on a window whose timer was
\* running with less than its interval left.
StartRestartsIntervalWitness ==
    /\ last.op = "toggle_auto_refresh"
    /\ last.checked
    /\ last.before.active
    /\ last.before.remaining < last.before.interval
    /\ timer_active[last.sid]
    /\ remaining[last.sid] = refresh_rate[last.sid]

\* C19 as stated: a window goes from not constructed to Created (its
\* construction failed) or Ready, and from Ready to Closed, and no other
\* way; a closed window stays closed, is in no slot of the registry and
\* its timer does not run.
LifecycleOrder ==
    [][\A s \in Sessions :
          /\ state'[s] # state[s] =>
                 <<state[s], state'[s]>> \in
                     {<<"Unborn", "Created">>, <<"Unborn", "Ready">>,
                      <<"Ready", "Closed">>}
          /\ state'[s] = "Closed" =>
                 /\ index(browsers', s) = -1
                 /\ ~timer_active'[s]
                 /\ SIG_TIMEOUT \notin connected'[s]]_vars

\* C15: from its construction on, a window has exactly one details button
\* checked, with an id from 0 to NumDetails - 1, and the checked button
\* changes only when the user clicks a details button of that window.
ExactlyOneDetailChecked ==
    [][\A s \in Sessions :
          /\ state'[s] \in {"Ready", "Closed"} =>
                 checked_id'[s] \in 0..(NumDetails - 1)
          /\ (state[s] \in {"Ready", "Closed"}
              /\ checked_id'[s] # checked_id[s])
                 => last' = [NoResult EXCEPT !.op = "signal", !.sid = s,
                                !.sig = SIG_BUTTON,
                                !.slot = "_change_details_field"]]_vars

\* The user has just clicked the last details button of an open window.
ExactlyOneDetailCheckedWitness ==
    \E s \in Sessions :
        /\ state[s] = "Ready"
        /\ checked_id[s] = NumDetails - 1
        /\ last.op = "signal"
        /\ last.sid = s
        /\ last.sig = SIG_BUTTON

\* C21: the registry is as long as the most windows that were open at one
\* time so far; it never gets shorter, and it gets longer only when every
\* slot holds a window.
RegistryIsLivePeak ==
    [][/\ Len(browsers') = live_peak'
       /\ Len(browsers') >= Len(browsers)
       /\ Len(browsers') > Len(browsers) =>
              \A i \in 1..Len(browsers) : browsers[i] # None]_vars

\* self._settings_group_name(postfix) of window s.
GroupNameOf(s, postfix) ==
    _settings_group_name(attr_cols, instance_nr[s], postfix)

\* C22: two different open windows, built with the same columns, never have
\* the same settings group name for the same postfix, and the 'model' and
\* the 'view' group names of one open window differ.
LiveGroupNamesDiffer ==
    \A s \in Sessions, t \in Sessions :
        (state[s] = "Ready" /\ state[t] = "Ready") =>
            /\ s # t =>
                   \A postfix \in Postfixes :
                       GroupNameOf(s, postfix) # GroupNameOf(t, postfix)
            /\ GroupNameOf(s, "model") # GroupNameOf(s, "view")

\* Two windows are open, one of them with the window number, and so the
\* group names, of a window that is closed.
LiveGroupNamesDifferWitness ==
    \E s \in Sessions, t \in Sessions, c \in Sessions :
        /\ s # t
        /\ state[s] = "Ready"
        /\ state[t] = "Ready"
        /\ state[c] = "Closed"
        /\ GroupNameOf(c, "view") = GroupNameOf(s, "view")

\* C23: the timer of an open window runs exactly when its auto-refresh flag
\* is set, from its construction on and after every toggle, refresh and
\* timeout; a refresh, from the keyboard, the menu or the timer, changes
\* neither the flag nor whether the timer runs.
TimerRunsIffAutoRefresh ==
    [][\A s \in Sessions :
          /\ state'[s] = "Ready" => (timer_active'[s] <=> auto_refresh'[s])
          /\ (last'.sid = s /\ last'.slot = "refresh")
                 => /\ auto_refresh'[s] = auto_refresh[s]
                    /\ timer_active'[s] = timer_active[s]]_vars

\* The timer of an open window whose auto-refresh action is checked has
\* just fired a refresh.
TimerRunsIffAutoRefreshWitness ==
    \E s \in Sessions :
        /\ state[s] = "Ready"
        /\ auto_refresh[s]
        /\ timer_active[s]
        /\ action_checked[s].auto
        /\ last.op = "signal"
        /\ last.sid = s
        /\ last.sig = SIG_TIMEOUT
        /\ last.slot = "refresh"

====
